---- MODULE Spec2Model ----
(***************************************************************************)
(* The article analysis pipeline of ai_analyzer.py (GeminiSkepticAnalyzer) *)
(* with its rate limiter (rate_limiter.py) and the prompt builders of      *)
(* prompt_templates.py that read earlier stage results.                    *)
(*                                                                         *)
(* One asyncio task runs analyze_article.  The task is atomic between its  *)
(* suspension points (the limiter's sleep, the provider call, the backoff  *)
(* sleep), so an action is the code between two suspension points.  Time   *)
(* passes only while the task is suspended.                                *)
(*                                                                         *)
(* Timestamps are kept as ages: since_last is time.time() minus            *)
(* last_request_time, since_call the time since the latest provider call   *)
(* was issued.  An age stops growing at Horizon, which is sound because    *)
(* the code only ever compares an age with min_interval <= Horizon.        *)
(*                                                                         *)
(* Spec is the pipeline.  SpecClient is _generate_content alone, SpecParser *)
(* _parse_json_response on any short text, SpecLimiter wait_if_needed      *)
(* called by two tasks on one limiter, there against an absolute clock.    *)
(* SpecLive is the pipeline with its provider calls counted and every      *)
(* possible step eventually taken, SpecMain the five steps of main.py      *)
(* around the pipeline.                                                    *)
(***************************************************************************)
EXTENDS Integers, Sequences, FiniteSets, TLC

VARIABLES
    stages,            \* analyze_article's argument: the requested stage set
    provider,          \* what the provider may answer in this run
    pc,                \* where the task is
    cur,               \* the stage step being executed
    analysis_results,  \* the result mapping under construction
    prompt,            \* the prompt of the current stage step
    attempt,           \* _generate_content's loop variable
    retries,           \* _generate_content's parameter
    delay,             \* _generate_content's parameter
    outcome,           \* what _generate_content returned or raised
    since_last,        \* age of rate_limiter.last_request_time, None if unset
    since_call,        \* age of the latest provider call, None if none yet
    wait_time,         \* the pending sleep's length
    call_order,        \* history: stage steps in the order of their first call
    calls,             \* history: provider calls issued by this generation
    sleeps,            \* history: backoff sleeps of this generation
    errors,            \* history: causes of the attempts this generation retried
    waited,            \* history: wait_if_needed completed since the latest call
    fresh_wait,        \* history: the latest call was preceded by its own wait
    gap,               \* history: age of the previous call when the latest was issued
    wait_gap,          \* history: age of last_request_time when it was overwritten
    in_flight,         \* history: provider requests issued and not yet answered
    total_calls,       \* history: provider calls issued by the run so far, None
                       \* in the specifications that do not count them
    now,               \* shared limiter: time.time()
    last_request_time, \* shared limiter: rate_limiter.last_request_time, None if unset
    task,              \* shared limiter: each task's position in wait_if_needed
    version,           \* history: writes of last_request_time so far
    completions,       \* history: the wait_if_needed calls that returned, in order
    main_pc,           \* main: the step main is at, "none" when main does not run
    steps,             \* main history: the steps main began, in order
    failures           \* main history: the steps that raised

\* the limiter shared by concurrent tasks, kept against an absolute clock
limiter_vars == <<now, last_request_time, task, version, completions>>

\* one analyze_article run
pipeline_vars == <<stages, provider, pc, cur, analysis_results, prompt, attempt,
                   retries, delay, outcome, since_last, since_call, wait_time,
                   call_order, calls, sleeps, errors, waited, fresh_wait, gap,
                   wait_gap, in_flight, total_calls>>

\* main (main.py:44-137) around one analyze_article run
main_vars == <<main_pc, steps, failures>>

vars == <<pipeline_vars, limiter_vars, main_vars>>

(***************************************************************************)
(* Bounds and program constants                                            *)
(***************************************************************************)
MaxLatency == 1
MaxRetries == 4
MaxDelay == 5
MaxOversleep == 1
MaxClock == 9
MaxCalls == 2
MaxLen == 4

requests_per_minute == 15
DefaultRetries == 3
DefaultDelay == 5

min_interval == 60 \div requests_per_minute
Horizon == min_interval
None == 0 - 1

Min(a, b) == IF a < b THEN a ELSE b

RECURSIVE Pow2(_)
Pow2(n) == IF n = 0 THEN 1 ELSE 2 * Pow2(n - 1)

\* the age a after d more seconds
Age(a, d) == IF a = None THEN None ELSE Min(a + d, Horizon)

(***************************************************************************)
(* Python values.  A JSON value is [t, n, s]: its type, its len() and, for *)
(* a string, its text.  A dict is a function from its keys; a text is a    *)
(* sequence of tokens.                                                     *)
(***************************************************************************)
Val(t, n, s) == [t |-> t, n |-> n, s |-> s]
List(n) == Val("list", n, "")
Str(s) == Val("str", 1, s)
Null == Val("null", 0, "")
EmptyList == List(0)
EmptyDict == [k \in {} |-> Null]

\* len(v) raises TypeError unless v is sized
Sized(v) == v.t \in {"list", "str", "dict"}

\* d.get(k, default)
Get(d, k, default) == IF k \in DOMAIN d THEN d[k] ELSE default

Tok(k, v) == [k |-> k, v |-> v]
LBrace == Tok("{", Null)
RBrace == Tok("}", Null)
Noise == Tok("x", Null)
Punct == {"{", "}", "x"}

(***************************************************************************)
(* The stages (ai_analyzer.py:53-93)                                       *)
(***************************************************************************)
StageOrder == <<"claims", "language", "red_flags", "verification", "entities",
                "counter_arguments", "assessment">>
StageNames == {StageOrder[i] : i \in 1..Len(StageOrder)}
Steps == <<"pre_analysis">> \o StageOrder

ResultKeyAsStage(stage) == stage

\* the key analyze_article stores a stage step's result under
ResultKey(stage) ==
    CASE stage = "language" -> "language_analysis"
      [] stage = "assessment" -> "overall_assessment"
      [] OTHER -> stage

\* the operation name a stage hands to _parse_json_response
Operation(stage) ==
    CASE stage = "claims" -> "claims extraction"
      [] stage = "language" -> "language analysis"
      [] stage = "red_flags" -> "red flags detection"
      [] stage = "verification" -> "verification questions"
      [] stage = "entities" -> "entity extraction"
      [] stage = "counter_arguments" -> "counter arguments"
      [] OTHER -> "overall assessment"

\* the text a stage's except clause puts before str(e)
ErrorPrefix(stage) ==
    CASE stage = "pre_analysis" -> "Pre-analysis failed: "
      [] stage = "claims" -> "Claims extraction failed: "
      [] stage = "language" -> "Language analysis failed: "
      [] stage = "red_flags" -> "Red flags detection failed: "
      [] stage = "verification" -> "Verification questions failed: "
      [] stage = "entities" -> "Entity extraction failed: "
      [] stage = "counter_arguments" -> "Counter argument generation failed: "
      [] OTHER -> "Overall assessment failed: "

EmptyFieldOfSchema(stage) ==
    CASE stage = "claims" -> "core_claims"
      [] stage = "red_flags" -> "red_flags"
      [] stage = "verification" -> "verification_questions"
      [] stage = "entities" -> "people"
      [] stage = "counter_arguments" -> "counter_arguments"
      [] OTHER -> ""

\* the empty collection a stage's except clause adds, "" if it adds none
EmptyField(stage) ==
    CASE stage = "claims" -> "claims"
      [] stage = "red_flags" -> "red_flags"
      [] stage = "verification" -> "questions"
      [] stage = "entities" -> "entities"
      [] stage = "counter_arguments" -> "counter_arguments"
      [] OTHER -> ""

(***************************************************************************)
(* Exceptions: [type, text, attempts, cause]; str(e) is e without its type *)
(***************************************************************************)
Exc(type, text, attempts, cause) ==
    [type |-> type, text |-> text, attempts |-> attempts, cause |-> cause]

\* ai_analyzer.py:216-219
BlockedError(reason) ==
    Exc("Exception", "Gemini API error: Prompt was blocked. ", 0, reason)

\* ai_analyzer.py:224-225
ExhaustedError(n, cause) ==
    Exc("Exception", "Gemini API error after n attempts: ", n, cause)

TypeError == Exc("TypeError", "object has no len()", 0, "")

\* f"<prefix>{str(e)}"
Message(prefix, e) ==
    [prefix |-> prefix, text |-> e.text, attempts |-> e.attempts, cause |-> e.cause]

\* the dict a stage's except clause returns
FailureShape(stage, e) ==
    IF EmptyField(stage) = ""
    THEN "error" :> Message(ErrorPrefix(stage), e)
    ELSE ("error" :> Message(ErrorPrefix(stage), e)) @@ (EmptyField(stage) :> EmptyList)

(***************************************************************************)
(* _parse_json_response (ai_analyzer.py:233-252)                           *)
(***************************************************************************)
\* str.find and str.rfind: 0-based, -1 when absent
Find(s, c) ==
    IF \E i \in 1..Len(s) : s[i].k = c
    THEN (CHOOSE i \in 1..Len(s) : s[i].k = c /\ \A j \in 1..(i - 1) : s[j].k # c) - 1
    ELSE 0 - 1

RFindFirst(s, c) == Find(s, c)

RFind(s, c) ==
    IF \E i \in 1..Len(s) : s[i].k = c
    THEN (CHOOSE i \in 1..Len(s) : s[i].k = c /\ \A j \in (i + 1)..Len(s) : s[j].k # c) - 1
    ELSE 0 - 1

\* s[a:b] for 0 <= a
Slice(s, a, b) == SubSeq(s, a + 1, b)

\* json.loads accepts s: an object whose members are key/value tokens
IsJson(s) ==
    /\ Len(s) >= 2
    /\ s[1] = LBrace
    /\ s[Len(s)] = RBrace
    /\ \A i \in 2..(Len(s) - 1) : s[i].k \notin Punct

\* json.loads(s): a later member overrides an earlier one of the same key
Loads(s) ==
    LET keys == {s[i].k : i \in 2..(Len(s) - 1)}
        last(k) == CHOOSE i \in 2..(Len(s) - 1) :
                       s[i].k = k /\ \A j \in (i + 1)..(Len(s) - 1) : s[j].k # k
    IN  [k \in keys |-> s[last(k)].v]

Fallback(response, operation) ==
    [raw_response |-> response, parsed |-> FALSE, operation |-> operation,
     error |-> "JSONDecodeError"]

ParseJsonResponse(response, operation) ==
    LET start_index == Find(response, "{")
        end_index == RFind(response, "}")
        json_str == Slice(response, start_index, end_index + 1)
    IN  IF start_index # 0 - 1 /\ end_index # 0 - 1 /\ IsJson(json_str)
        THEN Loads(json_str)
        ELSE Fallback(response, operation)

(***************************************************************************)
(* The prompt builders (prompt_templates.py).  A prompt is the record of   *)
(* what the template interpolates.                                         *)
(***************************************************************************)
Article == "article text"
Metadata == "article metadata"
NoLines == <<>>
NoDigest == [claim_summary |-> Null, claims_count |-> 0, tone |-> Null,
             intensity |-> Null, bias_risk_level |-> Null, red_flags_count |-> 0,
             entities |-> 0, balance |-> Null]
NoPrompt == [template |-> "none", article |-> "", claims_text |-> NoLines,
             tone |-> Null, digest |-> NoDigest]

\* pre_analysis_prompt, claims_extraction_prompt, language_analysis_prompt,
\* bias_detection_prompt, entity_extraction_prompt: the article only
ArticlePrompt(stage) == [NoPrompt EXCEPT !.template = stage, !.article = Article]

ClaimsTextNoFallback(claims) ==
    IF claims.list
    THEN [i \in 1..claims.n |-> "- claim"]
    ELSE <<"No specific claims provided">>

\* prompt_templates.py:146-152 and 228-234; claims is [list |-> BOOLEAN, n |-> len]
ClaimsText(claims) ==
    IF claims.list /\ claims.n > 0
    THEN [i \in 1..claims.n |-> "- claim"]
    ELSE <<"No specific claims provided">>

\* ai_analyzer.py:72 and 84: analysis_results.get('claims', {}.get('core_claims', [])),
\* that is analysis_results.get('claims', []): the claims dict, or the empty list
ClaimsArg(results) ==
    IF "claims" \in DOMAIN results
    THEN [list |-> FALSE, n |-> Cardinality(DOMAIN results["claims"])]
    ELSE [list |-> TRUE, n |-> 0]

VerificationPrompt(results) ==
    [NoPrompt EXCEPT !.template = "verification", !.article = Article,
                     !.claims_text = ClaimsText(ClaimsArg(results))]

CounterArgumentPrompt(results) ==
    [NoPrompt EXCEPT !.template = "counter_arguments",
                     !.claims_text = ClaimsText(ClaimsArg(results)),
                     !.tone = Get(Get(results, "language_analysis", EmptyDict),
                                  "overall_tone", Str("Unknown"))]

CountPresence(info, k) == IF k \in DOMAIN info THEN 1 ELSE 0

\* len(info.get(k, [])) if k in info else 0
Count(info, k) == IF k \in DOMAIN info THEN info[k].n ELSE 0
CountRaises(info, k) == k \in DOMAIN info /\ ~Sized(info[k])

\* prompt_templates.py:284-303
AssessmentDigest(results) ==
    LET claims_info == Get(results, "claims", EmptyDict)
        language_info == Get(results, "language_analysis", EmptyDict)
        red_flags_info == Get(results, "red_flags", EmptyDict)
        entities_info == Get(results, "entities", EmptyDict)
    IN  [claim_summary |-> Get(claims_info, "claim_summary", Str("No summary available")),
         claims_count |-> Count(claims_info, "core_claims"),
         tone |-> Get(language_info, "overall_tone", Str("Unknown")),
         intensity |-> Get(language_info, "language_intensity", Str("Unknown")),
         bias_risk_level |-> Get(red_flags_info, "bias_risk_level", Str("Unknown")),
         red_flags_count |-> Count(red_flags_info, "red_flags"),
         entities |-> Count(entities_info, "people") + Count(entities_info, "organizations"),
         balance |-> Get(red_flags_info, "overall_balance", Str("Unknown"))]

\* the len() calls of prompt_templates.py:290-293 raise TypeError on an unsized value
AssessmentRaises(results) ==
    \/ CountRaises(Get(results, "claims", EmptyDict), "core_claims")
    \/ CountRaises(Get(results, "red_flags", EmptyDict), "red_flags")
    \/ CountRaises(Get(results, "entities", EmptyDict), "people")
    \/ CountRaises(Get(results, "entities", EmptyDict), "organizations")

AssessmentPrompt(results) ==
    [NoPrompt EXCEPT !.template = "assessment", !.digest = AssessmentDigest(results)]

\* the prompt a stage step builds after its wait_if_needed, before its try block
BuildPrompt(stage, results) ==
    CASE stage = "verification" -> VerificationPrompt(results)
      [] stage = "counter_arguments" -> CounterArgumentPrompt(results)
      [] stage = "assessment" -> AssessmentPrompt(results)
      [] OTHER -> ArticlePrompt(stage)

PromptRaises(stage, results) == stage = "assessment" /\ AssessmentRaises(results)

(***************************************************************************)
(* The provider: what generate_content_async may answer                    *)
(***************************************************************************)
Object(members) == <<Noise, LBrace>> \o members \o <<RBrace, Noise>>

\* the top-level fields of the JSON format the stage's prompt asks for
\* (prompt_templates.py:44-57, 81-97, 118-137, 166-179, 197-221, 257-274, 320-336)
Schema(stage) ==
    CASE stage = "claims" ->
           {"analysis_certainty", "core_claims", "claim_summary", "claim_count"}
      [] stage = "language" ->
           {"analysis_certainty", "overall_tone", "language_intensity",
            "certainty_level", "reasoning_type", "loaded_language_examples",
            "hedging_language", "absolute_statements", "emotional_indicators"}
      [] stage = "red_flags" ->
           {"analysis_certainty", "bias_risk_level", "red_flags",
            "missing_perspectives", "source_quality", "overall_balance"}
      [] stage = "verification" ->
           {"verification_questions", "quick_checks", "expert_consultation_needed",
            "data_sources_to_check"}
      [] stage = "entities" ->
           {"people", "organizations", "key_terms", "locations", "dates_events",
            "research_priorities"}
      [] stage = "counter_arguments" ->
           {"counter_arguments", "alternative_interpretations",
            "skeptical_questions", "balance_assessment"}
      [] stage = "assessment" ->
           {"credibility_score", "credibility_level", "key_strengths",
            "key_concerns", "recommendation", "fact_check_priority",
            "reader_guidance", "summary"}
      [] OTHER -> {}

\* an answer in the schema the stage's prompt asks for
GoodText(stage) ==
    CASE stage = "claims" ->
           Object(<<Tok("core_claims", List(2)), Tok("claim_summary", Str("summary"))>>)
      [] stage = "language" ->
           Object(<<Tok("overall_tone", Str("emotional")),
                    Tok("language_intensity", Str("inflammatory"))>>)
      [] stage = "red_flags" ->
           Object(<<Tok("bias_risk_level", Str("HIGH")), Tok("red_flags", List(1)),
                    Tok("overall_balance", Str("Heavily biased"))>>)
      [] stage = "verification" -> Object(<<Tok("verification_questions", List(1))>>)
      [] stage = "entities" ->
           Object(<<Tok("people", List(1)), Tok("organizations", List(2))>>)
      [] stage = "counter_arguments" -> Object(<<Tok("counter_arguments", List(1))>>)
      [] stage = "assessment" -> Object(<<Tok("credibility_level", Str("Low"))>>)
      [] OTHER -> <<Noise, Noise>>

\* an answer that holds no JSON object: the last '}' lies before the first '{'
GarbledText == <<Noise, RBrace, LBrace>>

\* valid JSON whose collections are null
NullText(stage) ==
    CASE stage = "claims" -> Object(<<Tok("core_claims", Null)>>)
      [] stage = "red_flags" -> Object(<<Tok("red_flags", Null)>>)
      [] stage = "entities" -> Object(<<Tok("people", Null)>>)
      [] OTHER -> Object(<<Tok("note", Null)>>)

ErrorCauses == {"503", "timeout"}
Faults == {"blocked", "garbled", "null"} \cup ErrorCauses

Texts(stage, prov) ==
    {GoodText(stage)}
        \cup (IF "garbled" \in prov THEN {GarbledText} ELSE {})
        \cup (IF "null" \in prov THEN {NullText(stage)} ELSE {})

(***************************************************************************)
(* State                                                                   *)
(***************************************************************************)
NoExc == Exc("", "", 0, "")
NoOutcome == [kind |-> "none", text |-> <<>>, exc |-> NoExc]
Returned(t) == [kind |-> "text", text |-> t, exc |-> NoExc]
Raised(e) == [kind |-> "raised", text |-> <<>>, exc |-> e]

\* the runs of the pipeline: the provider misbehaves in one way per run
Profiles == {{"blocked"}, {"503"}, {"garbled"}, {"null"}, {"blocked", "503"},
             {"blocked", "garbled"}, {"blocked", "null"}}

\* main does not run: analyze_article is called on its own
MainAbsent ==
    /\ main_pc = "none"
    /\ steps = <<>>
    /\ failures = {}

\* the tasks that share one limiter
Tasks == {1, 2}

\* a task outside wait_if_needed, calls counting its calls that returned
IdleTask == [pc |-> "idle", calls |-> 0, entered |-> 0, read |-> None, seen |-> 0,
             wait_time |-> 0, wake |-> 0]

\* rate_limiter.py:9-10: the limiter after construction, no task inside it
LimiterFresh ==
    /\ now = 0
    /\ last_request_time = None
    /\ task = [t \in Tasks |-> IdleTask]
    /\ version = 0
    /\ completions = <<>>

Init ==
    /\ stages \in SUBSET StageNames
    /\ provider \in Profiles
    /\ pc = "pending"
    /\ cur = "none"
    /\ analysis_results = EmptyDict
    /\ prompt = NoPrompt
    /\ attempt = 0
    /\ retries = DefaultRetries
    /\ delay = DefaultDelay
    /\ outcome = NoOutcome
    /\ since_last = None
    /\ since_call = None
    /\ wait_time = 0
    /\ call_order = <<>>
    /\ calls = 0
    /\ sleeps = <<>>
    /\ errors = <<>>
    /\ waited = FALSE
    /\ fresh_wait = FALSE
    /\ gap = None
    /\ wait_gap = None
    /\ in_flight = 0
    /\ total_calls = None
    /\ LimiterFresh
    /\ MainAbsent

\* the first step after stage that the stage set asks for, "none" if there is none
\* (the chain of `if '<stage>' in stages` of ai_analyzer.py:54-89)
StepIndex(stage) == CHOOSE i \in 1..Len(Steps) : Steps[i] = stage
NextStageAny(stage, S) ==
    IF StepIndex(stage) = Len(Steps) THEN "none" ELSE Steps[StepIndex(stage) + 1]

NextStage(stage, S) ==
    LET later == {i \in (StepIndex(stage) + 1)..Len(Steps) : Steps[i] \in S}
    IN  IF later = {} THEN "none"
        ELSE Steps[CHOOSE i \in later : \A j \in later : i <= j]

\* d seconds pass
Elapse(d) ==
    /\ since_last' = Age(since_last, d)
    /\ since_call' = Age(since_call, d)

(***************************************************************************)
(* analyze_article (ai_analyzer.py:26-100)                                 *)
(***************************************************************************)
\* ai_analyzer.py:37-50: the result mapping is created, pre-analysis is entered
AnalyzeStart ==
    /\ pc = "pending"
    /\ analysis_results' = [metadata |-> Metadata, analysis_timestamp |-> "timestamp"]
    /\ cur' = "pre_analysis"
    /\ pc' = "enter"
    /\ UNCHANGED <<in_flight, total_calls>>
    /\ UNCHANGED <<main_vars, limiter_vars, stages, provider, prompt, attempt, retries, delay, outcome,
                   since_last, since_call, wait_time, call_order, calls, sleeps,
                   errors, waited, fresh_wait, gap, wait_gap>>

AbortReturnsPartial(e) ==
    /\ pc' = "done"
    /\ outcome' = NoOutcome

\* ai_analyzer.py:98-100: e reached analyze_article's except clause, which
\* raises it again: the run is over, its caller gets e and no result
Abort(e) ==
    /\ pc' = "failed"
    /\ outcome' = Raised(e)

\* rate_limiter.py:26 and the stage step up to its try block: last_request_time is
\* set, the prompt is built (outside the try block, so what it raises leaves
\* analyze_article), _generate_content is entered
FinishWait(age) ==
    /\ since_last' = 0
    /\ wait_gap' = age
    /\ waited' = TRUE
    /\ IF PromptRaises(cur, analysis_results)
       THEN /\ Abort(TypeError)
            /\ UNCHANGED <<prompt, attempt, calls, sleeps, errors>>
       ELSE /\ pc' = "calling"
            /\ prompt' = BuildPrompt(cur, analysis_results)
            /\ attempt' = 0
            /\ calls' = 0
            /\ sleeps' = <<>>
            /\ errors' = <<>>
            /\ UNCHANGED outcome

MustWaitInclusive(age) == age # None /\ age <= min_interval

\* time_since_last < self.min_interval, when last_request_time is set
MustWait(age) == age # None /\ age < min_interval

WaitTimeElapsed(age) == age

\* wait_time = self.min_interval - time_since_last
WaitTime(age) == min_interval - age

\* rate_limiter.py:16-24: the stage step's wait_if_needed up to its sleep
WaitIfNeeded ==
    /\ pc = "enter"
    /\ IF MustWait(since_last)
       THEN /\ wait_time' = WaitTime(since_last)
            /\ pc' = "limiter_sleep"
            /\ UNCHANGED <<prompt, attempt, outcome, since_last, calls, sleeps,
                           errors, waited, wait_gap>>
       ELSE /\ wait_time' = 0
            /\ FinishWait(since_last)
    /\ UNCHANGED <<in_flight, total_calls>>
    /\ UNCHANGED <<main_vars, limiter_vars, stages, provider, cur, analysis_results, retries, delay,
                   since_call, call_order, fresh_wait, gap>>

\* rate_limiter.py:24-26: the sleep is over, after wait_time seconds or later
LimiterWake ==
    /\ pc = "limiter_sleep"
    /\ \E late \in 0..MaxOversleep :
          /\ since_call' = Age(since_call, wait_time + late)
          /\ FinishWait(Age(since_last, wait_time + late))
    /\ UNCHANGED wait_time
    /\ UNCHANGED <<in_flight, total_calls>>
    /\ UNCHANGED <<main_vars, limiter_vars, stages, provider, cur, analysis_results, retries, delay,
                   call_order, fresh_wait, gap>>

(***************************************************************************)
(* _generate_content (ai_analyzer.py:196-231)                              *)
(***************************************************************************)
\* ai_analyzer.py:200: one attempt's provider call is issued
IssueCall ==
    /\ pc = "calling"
    /\ attempt < retries
    /\ pc' = "awaiting"
    /\ calls' = calls + 1
    /\ gap' = since_call
    /\ since_call' = 0
    /\ fresh_wait' = waited
    /\ waited' = FALSE
    /\ wait_gap' = None
    /\ wait_time' = 0
    /\ call_order' = IF attempt = 0 THEN Append(call_order, cur) ELSE call_order
    /\ in_flight' = in_flight + 1
    /\ total_calls' = IF total_calls = None THEN None ELSE total_calls + 1
    /\ UNCHANGED <<main_vars, limiter_vars, stages, provider, cur, analysis_results, prompt, attempt, retries,
                   delay, outcome, since_last, sleeps, errors>>

\* ai_analyzer.py:207-214: no block reason, response.text is returned
ProviderReturnsText ==
    /\ pc = "awaiting"
    /\ \E t \in Texts(cur, provider), d \in 0..MaxLatency :
          /\ Elapse(d)
          /\ outcome' = Returned(t)
    /\ pc' = "returned"
    /\ gap' = None
    /\ fresh_wait' = FALSE
    /\ in_flight' = in_flight - 1
    /\ UNCHANGED total_calls
    /\ UNCHANGED <<main_vars, limiter_vars, stages, provider, cur, analysis_results, prompt, attempt, retries,
                   delay, wait_time, call_order, calls, sleeps, errors, waited, wait_gap>>

ProviderBlocksRetried ==
    /\ pc = "awaiting"
    /\ "blocked" \in provider
    /\ \E d \in 0..MaxLatency : Elapse(d)
    /\ errors' = Append(errors, "SAFETY")
    /\ IF attempt + 1 = retries
       THEN /\ outcome' = Raised(ExhaustedError(retries, "SAFETY"))
            /\ pc' = "raised"
            /\ UNCHANGED <<wait_time, sleeps>>
       ELSE /\ wait_time' = delay
            /\ sleeps' = Append(sleeps, delay)
            /\ pc' = "backoff"
            /\ UNCHANGED outcome
    /\ gap' = None
    /\ fresh_wait' = FALSE
    /\ in_flight' = in_flight - 1
    /\ UNCHANGED total_calls
    /\ UNCHANGED <<main_vars, limiter_vars, stages, provider, cur, analysis_results, prompt, attempt, retries,
                   delay, call_order, calls, waited, wait_gap>>

\* ai_analyzer.py:207-211 and 216-219: a block reason ends the generation at once
ProviderBlocks ==
    /\ pc = "awaiting"
    /\ "blocked" \in provider
    /\ \E d \in 0..MaxLatency : Elapse(d)
    /\ outcome' = Raised(BlockedError("SAFETY"))
    /\ pc' = "raised"
    /\ gap' = None
    /\ fresh_wait' = FALSE
    /\ in_flight' = in_flight - 1
    /\ UNCHANGED total_calls
    /\ UNCHANGED <<main_vars, limiter_vars, stages, provider, cur, analysis_results, prompt, attempt, retries,
                   delay, wait_time, call_order, calls, sleeps, errors, waited, wait_gap>>

BackoffConstant(d, k) == d

\* delay * (2 ** attempt)
Backoff(d, k) == d * Pow2(k)

LastAttemptOffByOne(k, n) == k = n

LastAttemptNever(k, n) == FALSE

\* attempt + 1 == retries
LastAttempt(k, n) == k + 1 = n

\* ai_analyzer.py:221-228: any other failure: raise after the last attempt, else
\* sleep delay * 2^attempt
ProviderErrors ==
    /\ pc = "awaiting"
    /\ \E c \in provider \cap ErrorCauses, d \in 0..MaxLatency :
          /\ Elapse(d)
          /\ errors' = Append(errors, c)
          /\ IF LastAttempt(attempt, retries)
             THEN /\ outcome' = Raised(ExhaustedError(retries, c))
                  /\ pc' = "raised"
                  /\ UNCHANGED <<wait_time, sleeps>>
             ELSE /\ wait_time' = Backoff(delay, attempt)
                  /\ sleeps' = Append(sleeps, Backoff(delay, attempt))
                  /\ pc' = "backoff"
                  /\ UNCHANGED outcome
    /\ gap' = None
    /\ fresh_wait' = FALSE
    /\ in_flight' = in_flight - 1
    /\ UNCHANGED total_calls
    /\ UNCHANGED <<main_vars, limiter_vars, stages, provider, cur, analysis_results, prompt, attempt, retries,
                   delay, call_order, calls, waited, wait_gap>>

\* ai_analyzer.py:228 and 198: the backoff sleep is over, the loop goes on
BackoffWake ==
    /\ pc = "backoff"
    /\ \E late \in 0..MaxOversleep : Elapse(wait_time + late)
    /\ wait_time' = 0
    /\ attempt' = attempt + 1
    /\ pc' = "calling"
    /\ UNCHANGED <<in_flight, total_calls>>
    /\ UNCHANGED <<main_vars, limiter_vars, stages, provider, cur, analysis_results, prompt, retries, delay,
                   outcome, call_order, calls, sleeps, errors, waited, fresh_wait,
                   gap, wait_gap>>

(***************************************************************************)
(* The stage steps (ai_analyzer.py:102-194) and the dispatch between them  *)
(***************************************************************************)
StageValueUnguardedParse(stage, text) ==
    LET v == ParseJsonResponse(text, Operation(stage))
    IN  IF stage = "pre_analysis" THEN [monologue |-> text]
        ELSE IF "raw_response" \in DOMAIN v
             THEN FailureShape(stage, Exc("JSONDecodeError", "No JSON object found", 0, ""))
             ELSE v

\* what the stage step returns when _generate_content returned a text
StageValue(stage, text) ==
    IF stage = "pre_analysis" THEN [monologue |-> text]
    ELSE ParseJsonResponse(text, Operation(stage))

StageFailureAsDict(stage, e) == FailureShape(stage, e)

\* what the stage step returns when _generate_content raised
StageFailure(stage, e) ==
    IF stage = "pre_analysis" THEN [failed |-> Message(ErrorPrefix(stage), e)]
    ELSE FailureShape(stage, e)

StoreDropped(results, key, value) == results

StoreAlone(results, key, value) == key :> value

\* analysis_results[key] = value
Store(results, key, value) == (key :> value) @@ results

\* the stage step is over: its result is stored, the next requested stage is entered
Proceed(value) ==
    /\ analysis_results' = Store(analysis_results, ResultKey(cur), value)
    /\ cur' = NextStage(cur, stages)
    /\ pc' = IF NextStage(cur, stages) = "none" THEN "done" ELSE "enter"
    /\ outcome' = NoOutcome
    /\ prompt' = NoPrompt
    /\ attempt' = 0
    /\ calls' = 0
    /\ sleeps' = <<>>
    /\ errors' = <<>>
    /\ UNCHANGED <<in_flight, total_calls>>
    /\ UNCHANGED <<main_vars, limiter_vars, stages, provider, retries, delay, since_last, since_call, wait_time,
                   call_order, waited, fresh_wait, gap, wait_gap>>

StageReturn ==
    /\ pc = "returned"
    /\ cur \in StageNames \cup {"pre_analysis"}
    /\ Proceed(StageValue(cur, outcome.text))

StageCatchAborts ==
    /\ pc = "raised"
    /\ pc' = "failed"
    /\ UNCHANGED <<in_flight, total_calls>>
    /\ UNCHANGED <<main_vars, limiter_vars, stages, provider, cur, analysis_results, prompt, attempt, retries,
                   delay, outcome, since_last, since_call, wait_time, call_order,
                   calls, sleeps, errors, waited, fresh_wait, gap, wait_gap>>

StageCatch ==
    /\ pc = "raised"
    /\ cur \in StageNames \cup {"pre_analysis"}
    /\ Proceed(StageFailure(cur, outcome.exc))

Next ==
    \/ AnalyzeStart
    \/ WaitIfNeeded
    \/ LimiterWake
    \/ IssueCall
    \/ ProviderReturnsText
    \/ ProviderBlocks
    \/ ProviderErrors
    \/ BackoffWake
    \/ StageReturn
    \/ StageCatch

Spec == Init /\ [][Next]_vars

(***************************************************************************)
(* The pipeline with its provider calls counted, under the assumption that *)
(* every provider call and every sleep returns and the task goes on        *)
(* running: a step that is possible is eventually taken.                   *)
(***************************************************************************)
\* the runs whose calls are counted: every attempt may fail, or prompts are
\* blocked and collections may be null
CountedProfiles == {{"503"}, {"blocked", "null"}}

InitLive ==
    /\ stages \in SUBSET StageNames
    /\ provider \in CountedProfiles
    /\ pc = "pending"
    /\ cur = "none"
    /\ analysis_results = EmptyDict
    /\ prompt = NoPrompt
    /\ attempt = 0
    /\ retries = DefaultRetries
    /\ delay = DefaultDelay
    /\ outcome = NoOutcome
    /\ since_last = None
    /\ since_call = None
    /\ wait_time = 0
    /\ call_order = <<>>
    /\ calls = 0
    /\ sleeps = <<>>
    /\ errors = <<>>
    /\ waited = FALSE
    /\ fresh_wait = FALSE
    /\ gap = None
    /\ wait_gap = None
    /\ in_flight = 0
    /\ total_calls = 0
    /\ LimiterFresh
    /\ MainAbsent

SpecLive == InitLive /\ [][Next]_vars /\ WF_vars(Next)

(***************************************************************************)
(* main: extract, analyze, generate the report, save it, display it.  The  *)
(* analysis is the pipeline above, called without a stage set, so with all *)
(* seven stages.  Extraction, report generation and saving are calls that  *)
(* return or raise; steps records the steps begun, failures those that     *)
(* raised.                                                                 *)
(***************************************************************************)
\* main.py:44-64: banner, key and URL read, components built, no step begun and
\* analyze_article not yet called
InitMain ==
    /\ stages = StageNames
    /\ provider \in Profiles
    /\ pc = "not_called"
    /\ cur = "none"
    /\ analysis_results = EmptyDict
    /\ prompt = NoPrompt
    /\ attempt = 0
    /\ retries = DefaultRetries
    /\ delay = DefaultDelay
    /\ outcome = NoOutcome
    /\ since_last = None
    /\ since_call = None
    /\ wait_time = 0
    /\ call_order = <<>>
    /\ calls = 0
    /\ sleeps = <<>>
    /\ errors = <<>>
    /\ waited = FALSE
    /\ fresh_wait = FALSE
    /\ gap = None
    /\ wait_gap = None
    /\ in_flight = 0
    /\ total_calls = None
    /\ LimiterFresh
    /\ main_pc = "start"
    /\ steps = <<>>
    /\ failures = {}

\* main.py:66-76: step 1; what extract_content raises is printed and main returns
ExtractContent ==
    /\ main_pc = "start"
    /\ steps' = Append(steps, "extract")
    /\ \E raised \in BOOLEAN :
          IF raised
          THEN /\ failures' = failures \cup {"extract"}
               /\ main_pc' = "ended"
          ELSE /\ failures' = failures
               /\ main_pc' = "extracted"
    /\ UNCHANGED <<pipeline_vars, limiter_vars>>

\* main.py:79-84 and ai_analyzer.py:37-38: step 2 calls analyze_article with no
\* stage set
CallAnalyzer ==
    /\ main_pc = "extracted"
    /\ pc = "not_called"
    /\ steps' = Append(steps, "analyze")
    /\ main_pc' = "analyzing"
    /\ pc' = "pending"
    /\ UNCHANGED <<failures, limiter_vars, stages, provider, cur, analysis_results, prompt,
                   attempt, retries, delay, outcome, since_last, since_call,
                   wait_time, call_order, calls, sleeps, errors, waited,
                   fresh_wait, gap, wait_gap, in_flight, total_calls>>

\* main.py:81-85: analyze_article returned its results
AnalysisReturns ==
    /\ main_pc = "analyzing"
    /\ pc = "done"
    /\ main_pc' = "analyzed"
    /\ UNCHANGED <<steps, failures, pipeline_vars, limiter_vars>>

AnalysisRaisesContinues ==
    /\ main_pc = "analyzing"
    /\ pc = "failed"
    /\ failures' = failures \cup {"analyze"}
    /\ main_pc' = "analyzed"
    /\ UNCHANGED <<steps, pipeline_vars, limiter_vars>>

\* main.py:86-92: analyze_article raised; the message is printed and main returns
AnalysisRaises ==
    /\ main_pc = "analyzing"
    /\ pc = "failed"
    /\ failures' = failures \cup {"analyze"}
    /\ main_pc' = "ended"
    /\ UNCHANGED <<steps, pipeline_vars, limiter_vars>>

\* main.py:95-101: step 3; what generate_report raises is printed and main returns
GenerateReport ==
    /\ main_pc = "analyzed"
    /\ steps' = Append(steps, "report")
    /\ \E raised \in BOOLEAN :
          IF raised
          THEN /\ failures' = failures \cup {"report"}
               /\ main_pc' = "ended"
          ELSE /\ failures' = failures
               /\ main_pc' = "reported"
    /\ UNCHANGED <<pipeline_vars, limiter_vars>>

\* main.py:104-122: step 4; what the directory, the file or the write raises is
\* printed and main goes on
SaveReport ==
    /\ main_pc = "reported"
    /\ steps' = Append(steps, "save")
    /\ \E raised \in BOOLEAN :
          failures' = IF raised THEN failures \cup {"save"} ELSE failures
    /\ main_pc' = "saved"
    /\ UNCHANGED <<pipeline_vars, limiter_vars>>

\* main.py:125-131: the report is printed and main ends
DisplayReport ==
    /\ main_pc = "saved"
    /\ steps' = Append(steps, "display")
    /\ main_pc' = "ended"
    /\ UNCHANGED <<failures, pipeline_vars, limiter_vars>>

NextMain ==
    \/ ExtractContent
    \/ CallAnalyzer
    \/ AnalyzeStart
    \/ WaitIfNeeded
    \/ LimiterWake
    \/ IssueCall
    \/ ProviderReturnsText
    \/ ProviderBlocks
    \/ ProviderErrors
    \/ BackoffWake
    \/ StageReturn
    \/ StageCatch
    \/ AnalysisReturns
    \/ AnalysisRaises
    \/ GenerateReport
    \/ SaveReport
    \/ DisplayReport

SpecMain == InitMain /\ [][NextMain]_vars

(***************************************************************************)
(* _generate_content alone: one call with any retries and delay, against a *)
(* provider that may answer in every way                                   *)
(***************************************************************************)
InitClient ==
    /\ stages = {}
    /\ provider = Faults
    /\ pc = "calling"
    /\ cur = "client"
    /\ analysis_results = EmptyDict
    /\ prompt = ArticlePrompt("client")
    /\ attempt = 0
    /\ retries \in 1..MaxRetries
    /\ delay \in 1..MaxDelay
    /\ outcome = NoOutcome
    /\ since_last = None
    /\ since_call = None
    /\ wait_time = 0
    /\ call_order = <<>>
    /\ calls = 0
    /\ sleeps = <<>>
    /\ errors = <<>>
    /\ waited = FALSE
    /\ fresh_wait = FALSE
    /\ gap = None
    /\ wait_gap = None
    /\ in_flight = 0
    /\ total_calls = None
    /\ LimiterFresh
    /\ MainAbsent

NextClient ==
    \/ IssueCall
    \/ ProviderReturnsText
    \/ ProviderBlocks
    \/ ProviderErrors
    \/ BackoffWake

SpecClient == InitClient /\ [][NextClient]_vars

(***************************************************************************)
(* _parse_json_response alone (ai_analyzer.py:233-252): a stage step whose *)
(* generation returned any text of up to MaxLen tokens                     *)
(***************************************************************************)
\* the tokens of a response: braces, other text, and members of an object, two of
\* them with the same key
Alphabet == {LBrace, RBrace, Noise, Tok("a", List(1)), Tok("a", Str("v")),
             Tok("b", Null)}

RECURSIVE TextsOfLen(_)
TextsOfLen(n) ==
    IF n = 0 THEN {<<>>}
    ELSE {Append(t, c) : t \in TextsOfLen(n - 1), c \in Alphabet}

Raws == UNION {TextsOfLen(n) : n \in 0..MaxLen}

InitParser ==
    /\ stages = {}
    /\ provider = {}
    /\ pc = "returned"
    /\ cur \in StageNames
    /\ analysis_results = EmptyDict
    /\ prompt = BuildPrompt(cur, EmptyDict)
    /\ attempt = 0
    /\ retries = DefaultRetries
    /\ delay = DefaultDelay
    /\ \E raw \in Raws : outcome = Returned(raw)
    /\ since_last = 0
    /\ since_call = 0
    /\ wait_time = 0
    /\ call_order = <<cur>>
    /\ calls = 1
    /\ sleeps = <<>>
    /\ errors = <<>>
    /\ waited = FALSE
    /\ fresh_wait = FALSE
    /\ gap = None
    /\ wait_gap = None
    /\ in_flight = 0
    /\ total_calls = None
    /\ LimiterFresh
    /\ MainAbsent

NextParser == StageReturn

SpecParser == InitParser /\ [][NextParser]_vars

(***************************************************************************)
(* wait_if_needed alone (rate_limiter.py:12-26): the tasks of Tasks call   *)
(* it on one shared limiter, each up to MaxCalls times, at any time of a   *)
(* monotonic clock.  A task is suspended only in its asyncio.sleep.        *)
(***************************************************************************)
\* no analyze_article run takes part
PipelineIdle ==
    /\ stages = {}
    /\ provider = {}
    /\ pc = "pending"
    /\ cur = "none"
    /\ analysis_results = EmptyDict
    /\ prompt = NoPrompt
    /\ attempt = 0
    /\ retries = DefaultRetries
    /\ delay = DefaultDelay
    /\ outcome = NoOutcome
    /\ since_last = None
    /\ since_call = None
    /\ wait_time = 0
    /\ call_order = <<>>
    /\ calls = 0
    /\ sleeps = <<>>
    /\ errors = <<>>
    /\ waited = FALSE
    /\ fresh_wait = FALSE
    /\ gap = None
    /\ wait_gap = None
    /\ in_flight = 0
    /\ total_calls = None

InitLimiter == PipelineIdle /\ LimiterFresh /\ MainAbsent

\* current_time - self.last_request_time, None while last_request_time is unset
TimeSinceLast == IF last_request_time = None THEN None ELSE now - last_request_time

\* rate_limiter.py:26: last_request_time = time.time(), and the call returns
Record(t, slept) ==
    /\ last_request_time' = now
    /\ version' = version + 1
    /\ completions' = Append(completions,
                             [task |-> t, entered |-> task[t].entered,
                              read |-> task[t].read, seen |-> task[t].seen,
                              slept |-> slept, at |-> now, wrote |-> version + 1])
    /\ task' = [task EXCEPT ![t] = [IdleTask EXCEPT !.calls = task[t].calls + 1]]

EnterYielding(t) ==
    /\ task[t].pc = "idle"
    /\ task[t].calls < MaxCalls
    /\ task' = [task EXCEPT ![t] =
                   [@ EXCEPT !.pc = "sleeping", !.entered = now,
                             !.read = last_request_time, !.seen = version,
                             !.wait_time = IF MustWait(TimeSinceLast)
                                           THEN WaitTime(TimeSinceLast) ELSE 0,
                             !.wake = IF MustWait(TimeSinceLast)
                                      THEN now + WaitTime(TimeSinceLast) ELSE now]]
    /\ UNCHANGED <<last_request_time, version, completions>>
    /\ UNCHANGED <<now, pipeline_vars, main_vars>>

EnterLocked(t) ==
    /\ task[t].pc = "idle"
    /\ task[t].calls < MaxCalls
    /\ \A u \in Tasks : task[u].pc = "idle"
    /\ IF MustWait(TimeSinceLast)
       THEN /\ task' = [task EXCEPT ![t] =
                           [@ EXCEPT !.pc = "sleeping", !.entered = now,
                                     !.read = last_request_time, !.seen = version,
                                     !.wait_time = WaitTime(TimeSinceLast),
                                     !.wake = now + WaitTime(TimeSinceLast)]]
            /\ UNCHANGED <<last_request_time, version, completions>>
       ELSE /\ last_request_time' = now
            /\ version' = version + 1
            /\ completions' = Append(completions,
                                     [task |-> t, entered |-> now,
                                      read |-> last_request_time, seen |-> version,
                                      slept |-> 0, at |-> now, wrote |-> version + 1])
            /\ task' = [task EXCEPT ![t] = [IdleTask EXCEPT !.calls = task[t].calls + 1]]
    /\ UNCHANGED <<now, pipeline_vars, main_vars>>

\* rate_limiter.py:16-24 (and 26 when it does not sleep): task t calls
\* wait_if_needed and runs to its sleep, or to its return
Enter(t) ==
    /\ task[t].pc = "idle"
    /\ task[t].calls < MaxCalls
    /\ IF MustWait(TimeSinceLast)
       THEN /\ task' = [task EXCEPT ![t] =
                           [@ EXCEPT !.pc = "sleeping", !.entered = now,
                                     !.read = last_request_time, !.seen = version,
                                     !.wait_time = WaitTime(TimeSinceLast),
                                     !.wake = now + WaitTime(TimeSinceLast)]]
            /\ UNCHANGED <<last_request_time, version, completions>>
       ELSE /\ last_request_time' = now
            /\ version' = version + 1
            /\ completions' = Append(completions,
                                     [task |-> t, entered |-> now,
                                      read |-> last_request_time, seen |-> version,
                                      slept |-> 0, at |-> now, wrote |-> version + 1])
            /\ task' = [task EXCEPT ![t] = [IdleTask EXCEPT !.calls = task[t].calls + 1]]
    /\ UNCHANGED <<now, pipeline_vars, main_vars>>

\* rate_limiter.py:24-26: task t's sleep is over, wait_time seconds after it
\* began or later
Wake(t) ==
    /\ task[t].pc = "sleeping"
    /\ now >= task[t].wake
    /\ Record(t, task[t].wait_time)
    /\ UNCHANGED <<now, pipeline_vars, main_vars>>

\* a second passes
Tick ==
    /\ now < MaxClock
    /\ now' = now + 1
    /\ UNCHANGED <<last_request_time, task, version, completions, pipeline_vars,
                   main_vars>>

NextLimiter ==
    \/ \E t \in Tasks : Enter(t)
    \/ \E t \in Tasks : Wake(t)
    \/ Tick

SpecLimiter == InitLimiter /\ [][NextLimiter]_vars

(***************************************************************************)
(* Claims                                                                  *)
(***************************************************************************)
BaseKeys == {"metadata", "analysis_timestamp", "pre_analysis"}

\* the key the code stores each stage under, spelled out
StoredName(s) ==
    CASE s = "language" -> "language_analysis"
      [] s = "assessment" -> "overall_assessment"
      [] OTHER -> s

\* a stage result of the stage's failure shape
IsFailure(d) == "error" \in DOMAIN d /\ "parsed" \notin DOMAIN d

\* C1 as stated: a run that returns normally holds pre_analysis plus exactly the
\* requested stage names as keys, each stage's result under the stage's own name.
C1_KeysAreStageNames ==
    pc = "done" => DOMAIN analysis_results = BaseKeys \cup stages

\* C1 amended: a run that returns normally holds, next to metadata and
\* analysis_timestamp, pre_analysis plus exactly one key per requested stage: the
\* stage's name, except language_analysis for language and overall_assessment
\* for assessment.
C1_KeysMatchStages ==
    pc = "done" =>
        DOMAIN analysis_results = BaseKeys \cup {StoredName(s) : s \in stages}

C1_Witness ==
    /\ pc = "done"
    /\ stages = StageNames
    /\ "language_analysis" \in DOMAIN analysis_results
    /\ "overall_assessment" \in DOMAIN analysis_results

C3_NoStageRaisesPast == pc # "failed"

\* the fixed order of the steps, spelled out
FixedOrder == <<"pre_analysis", "claims", "language", "red_flags", "verification",
                "entities", "counter_arguments", "assessment">>
FixedStages == {FixedOrder[i] : i \in 2..Len(FixedOrder)}
Position(s) == CHOOSE i \in 1..Len(FixedOrder) : FixedOrder[i] = s

\* pending, pre_analyzing, running_stages, done (or failed)
Phase ==
    CASE pc = "pending" -> 0
      [] pc \in {"done", "failed"} -> 3
      [] cur = "pre_analysis" -> 1
      [] OTHER -> 2

C4_Order ==
    /\ \A i \in 1..Len(call_order) : call_order[i] \in stages \cup {"pre_analysis"}
    /\ \A i, j \in 1..Len(call_order) :
          i < j => Position(call_order[i]) < Position(call_order[j])
    /\ call_order # <<>> => call_order[1] = "pre_analysis"
    /\ pc = "awaiting" => call_order # <<>> /\ call_order[Len(call_order)] = cur

\* C4: the steps that call the provider do so in the fixed order, pre-analysis
\* first, only requested stages, none twice, every call belonging to the step
\* that called last; and the run never moves back to an earlier phase.
C4_FixedOrder == [](C4_Order) /\ [][Phase' >= Phase]_vars

C4_Witness ==
    /\ pc = "done"
    /\ call_order = <<"pre_analysis", "red_flags", "entities", "assessment">>

\* C5 as stated: every provider call, a retry's included, is preceded by its own
\* wait_if_needed made after the previous provider call.
C5_EveryCallHasItsWait == pc = "awaiting" => fresh_wait

\* C6 as stated: two successive provider calls of one run start at least
\* min_interval seconds apart.
C6_CallsAreSpaced == (pc = "awaiting" /\ gap # None) => gap >= min_interval

IsExhausted(e) == e.text = "Gemini API error after n attempts: "
IsBlocked(e) == e.text = "Gemini API error: Prompt was blocked. "

\* C7: with retries >= 1 the calls stop at the first success (one call per
\* failed attempt plus the successful one, none after it), and when every
\* attempt failed with a non-blocked error exactly retries calls were issued and
\* the terminal error names retries attempts and carries the last cause.
C7_RetriesUntilSuccess ==
    /\ calls <= retries
    /\ pc = "returned" => outcome.kind = "text" /\ calls = Len(errors) + 1
    /\ pc \in {"returned", "raised"} => ~ENABLED IssueCall
    /\ Len(errors) = retries =>
          /\ pc = "raised"
          /\ calls = retries
          /\ IsExhausted(outcome.exc)
          /\ outcome.exc.attempts = retries
          /\ outcome.exc.cause = errors[Len(errors)]
    /\ (pc = "raised" /\ IsExhausted(outcome.exc)) => Len(errors) = retries

C7_Witness ==
    /\ pc = "raised"
    /\ retries = 3
    /\ calls = 3
    /\ errors = <<"503", "503", "timeout">>
    /\ outcome.exc.cause = "timeout"

\* C8: a block reason is never handled as a retryable error: the blocked-prompt
\* error is raised on the attempt that received it, with no call and no backoff
\* sleep after it.
C8_BlockedIsTerminal ==
    /\ \A i \in 1..Len(errors) : errors[i] # "SAFETY"
    /\ (pc = "raised" /\ ~IsExhausted(outcome.exc)) =>
          /\ IsBlocked(outcome.exc)
          /\ calls = attempt + 1
          /\ Len(sleeps) = attempt
          /\ ~ENABLED IssueCall
          /\ ~ENABLED BackoffWake

C8_Witness ==
    /\ pc = "raised"
    /\ IsBlocked(outcome.exc)
    /\ attempt = 1
    /\ retries = 3

\* C9: the k-th backoff sleep (k from 0) lasts delay * 2^k, there is one sleep
\* per failed attempt except the last, and the pending sleep is the latest one.
C9_ExponentialBackoff ==
    /\ \A i \in 1..Len(sleeps) : sleeps[i] = delay * 2^(i - 1)
    /\ Len(sleeps) = Min(Len(errors), retries - 1)
    /\ pc = "backoff" => wait_time = delay * 2^attempt /\ Len(sleeps) = attempt + 1

C9_Witness ==
    /\ pc = "raised"
    /\ delay = 5
    /\ sleeps = <<5, 10, 20>>
    /\ Len(errors) = 4

\* C10: when wait_if_needed records last_request_time, the previous recording
\* is at least min_interval = 60 / requests_per_minute = 4 seconds old.
C10_WaitsAreSpaced ==
    /\ 60 \div requests_per_minute = 4
    /\ wait_gap # None => wait_gap >= 4

C10_Witness ==
    /\ pc = "calling"
    /\ wait_gap # None
    /\ wait_time = 3

\* what C11 says of every wait_if_needed call, sleeping or returned
C11_Calls ==
    /\ \A t \in Tasks : task[t].pc = "sleeping" =>
          /\ task[t].read # None
          /\ task[t].entered - task[t].read < 4
          /\ task[t].wait_time = 4 - (task[t].entered - task[t].read)
          /\ task[t].wait_time > 0
          /\ task[t].wait_time <= 4
          /\ task[t].wake = task[t].entered + task[t].wait_time
    /\ \A i \in 1..Len(completions) :
          LET c == completions[i]
          IN  /\ c.slept = 0 <=> (c.read = None \/ c.entered - c.read >= 4)
              /\ c.slept = 0 => c.at = c.entered
              /\ c.slept # 0 =>
                    /\ c.slept = 4 - (c.entered - c.read)
                    /\ c.at >= c.entered + c.slept
              /\ c.at <= now
    /\ completions = <<>> <=> last_request_time = None
    /\ completions # <<>> => last_request_time = completions[Len(completions)].at

\* C11: wait_if_needed does not sleep on a limiter's first call nor when at
\* least min_interval = 4 seconds passed since last_request_time; otherwise it
\* sleeps exactly 4 minus the elapsed time, more than 0 and at most 4; it always
\* ends by setting last_request_time to the time of its return, and
\* last_request_time never decreases.
C11_LimiterContract ==
    /\ [](C11_Calls)
    /\ [][last_request_time # None => last_request_time' >= last_request_time]_vars

C11_Witness ==
    /\ Len(completions) >= 3
    /\ completions[1].read = None
    /\ completions[1].slept = 0
    /\ completions[2].slept = 3
    /\ completions[2].at = completions[2].entered + 3
    /\ completions[3].entered - completions[3].read >= 4
    /\ completions[3].slept = 0

\* returns i and i + 1 lie less than min_interval = 4 seconds apart
Close(i) == completions[i + 1].at - completions[i].at < 4

\* the call of return i + 1 made its interval check before return i wrote
\* last_request_time
Overlapped(i) == completions[i + 1].seen < completions[i].wrote

\* C20: the limiter holds no lock: a task may enter wait_if_needed while other
\* tasks are inside it, and two returns lie less than min_interval apart only
\* when the later call made its check before the earlier one updated
\* last_request_time.
C20_NoLock ==
    /\ \A t \in Tasks :
          (task[t].pc = "idle" /\ task[t].calls < MaxCalls) => ENABLED Enter(t)
    /\ \A i \in 1..(Len(completions) - 1) : Close(i) => Overlapped(i)

\* both tasks passed the check on the same last_request_time, slept, and
\* returned less than min_interval apart
C20_Witness ==
    \E i \in 1..(Len(completions) - 1) :
        /\ completions[i].task # completions[i + 1].task
        /\ completions[i].read # None
        /\ completions[i].read = completions[i + 1].read
        /\ completions[i].slept > 0
        /\ completions[i + 1].slept > 0
        /\ Overlapped(i)
        /\ Close(i)

\* raw[i..j] runs from the first '{' of raw to its last '}'
Braces(raw, i, j) ==
    /\ raw[i].k = "{"
    /\ \A k \in 1..(i - 1) : raw[k].k # "{"
    /\ raw[j].k = "}"
    /\ \A k \in (j + 1)..Len(raw) : raw[k].k # "}"

\* the substring from the first '{' to the last '}' of raw decodes as JSON
Decodes(raw) ==
    \E i, j \in 1..Len(raw) : Braces(raw, i, j) /\ IsJson(SubSeq(raw, i, j))

HasClaims ==
    /\ "claims" \in DOMAIN analysis_results
    /\ "core_claims" \in DOMAIN analysis_results["claims"]
    /\ analysis_results["claims"]["core_claims"].t = "list"
    /\ analysis_results["claims"]["core_claims"].n > 0

\* C13 as stated: when the claims stage stored a non-empty core_claims list, the
\* prompts of verification and counter_arguments hold one '- <claim>' line per
\* extracted claim.
C13_PromptsListClaims ==
    (pc = "calling" /\ cur \in {"verification", "counter_arguments"} /\ HasClaims) =>
        prompt.claims_text =
            [i \in 1..analysis_results["claims"]["core_claims"].n |-> "- claim"]

\* the steps that called the provider so far
Called == {call_order[i] : i \in 1..Len(call_order)}

\* C14: when verification is requested and claims is not, the verification
\* stage still runs (it calls the provider and its result is stored), and its
\* prompt is built with the claims text 'No specific claims provided'.
C14_VerificationWithoutClaims ==
    ("verification" \in stages /\ "claims" \notin stages) =>
        /\ (cur = "verification" /\ pc \notin {"enter", "limiter_sleep"}) =>
              /\ prompt.template = "verification"
              /\ prompt.article = Article
              /\ prompt.claims_text = <<"No specific claims provided">>
        /\ pc \in {"done", "failed"} =>
              /\ "verification" \in Called
              /\ "verification" \in DOMAIN analysis_results
              /\ "claims" \notin DOMAIN analysis_results

C14_Witness ==
    /\ stages = {"verification"}
    /\ cur = "verification"
    /\ pc = "awaiting"
    /\ prompt.claims_text = <<"No specific claims provided">>

\* the pre_analysis entry is the string 'Pre-analysis failed: <str(e)>'
PreAnalysisFailed ==
    /\ "pre_analysis" \in DOMAIN analysis_results
    /\ DOMAIN analysis_results["pre_analysis"] = {"failed"}

C15_Absorbed ==
    /\ (pc \notin {"pending", "done", "failed"} /\ call_order = <<>>) =>
          cur = "pre_analysis"
    /\ pc \in {"done", "failed"} =>
          /\ "pre_analysis" \in Called
          /\ "pre_analysis" \in DOMAIN analysis_results
    /\ "pre_analysis" \in DOMAIN analysis_results =>
          DOMAIN analysis_results["pre_analysis"] \in {{"failed"}, {"monologue"}}
    /\ PreAnalysisFailed =>
          /\ analysis_results["pre_analysis"].failed.prefix = "Pre-analysis failed: "
          /\ pc = "done" => stages \subseteq Called
          /\ pc = "failed" =>
                /\ cur = "assessment"
                /\ outcome.exc.type = "TypeError"
                /\ stages \ {"assessment"} \subseteq Called

\* the step that takes up pre-analysis's raised generation stores the failure
\* string and enters the first requested stage
C15_Step ==
    (cur = "pre_analysis" /\ pc = "raised") =>
        /\ analysis_results'["pre_analysis"] =
               [failed |-> [prefix |-> "Pre-analysis failed: ",
                            text |-> outcome.exc.text,
                            attempts |-> outcome.exc.attempts,
                            cause |-> outcome.exc.cause]]
        /\ pc' = IF stages = {} THEN "done" ELSE "enter"
        /\ stages # {} =>
              /\ cur' \in stages
              /\ \A s \in stages : Position(cur') <= Position(s)

FailureField(s) ==
    CASE s = "claims" -> {"claims"}
      [] s = "red_flags" -> {"red_flags"}
      [] s = "verification" -> {"questions"}
      [] s = "entities" -> {"entities"}
      [] s = "counter_arguments" -> {"counter_arguments"}
      [] OTHER -> {}

\* the step that takes up a stage's raised generation stores v, the stage's
\* failure shape, whose error text holds the model client's message
StoresFailureShape(v) ==
    /\ DOMAIN v = {"error"} \cup FailureField(cur)
    /\ \A f \in FailureField(cur) : v[f] = [t |-> "list", n |-> 0, s |-> ""]
    /\ v["error"].text = outcome.exc.text
    /\ v["error"].attempts = outcome.exc.attempts
    /\ v["error"].cause = outcome.exc.cause
    /\ v["error"].text \in {"Gemini API error: Prompt was blocked. ",
                              "Gemini API error after n attempts: "}

\* C16 as stated: a failed model call stores exactly the stage's failure shape
\* (claims {error, claims: []}, language {error}, red_flags {error, red_flags:
\* []}, verification {error, questions: []}, entities {error, entities: []},
\* counter_arguments {error, counter_arguments: []}, assessment {error}) whose
\* error text holds the client's message, and no field of the stage's success
\* schema is present in it.
C16_NoSuccessField ==
    [][(pc = "raised" /\ cur \in FixedStages) =>
          /\ StoresFailureShape(analysis_results'[StoredName(cur)])
          /\ DOMAIN analysis_results'[StoredName(cur)] \cap Schema(cur) = {}]_vars

\* C16 amended: a failed model call stores exactly the stage's failure shape,
\* whose error text holds the client's message; the only field of the stage's
\* success schema that can be present is the empty collection itself, which
\* for red_flags and counter_arguments bears the name of a schema field.
C16_FailureShape ==
    [][(pc = "raised" /\ cur \in FixedStages) =>
          /\ StoresFailureShape(analysis_results'[StoredName(cur)])
          /\ DOMAIN analysis_results'[StoredName(cur)] \cap Schema(cur)
                 = FailureField(cur) \cap {"red_flags", "counter_arguments"}]_vars

C16_Witness ==
    /\ pc = "done"
    /\ stages = {"claims", "red_flags", "verification"}
    /\ DOMAIN analysis_results["claims"] = {"error", "claims"}
    /\ DOMAIN analysis_results["red_flags"] = {"error", "red_flags"}
    /\ DOMAIN analysis_results["verification"] = {"error", "questions"}
    /\ analysis_results["claims"]["error"].cause = "SAFETY"
    /\ analysis_results["verification"]["error"].attempts = 3

\* the run is over by an exception: the caller holds it, nothing is in flight
\* and no step of the run can follow
C17_Aborted ==
    /\ pc = "failed" =>
          /\ outcome.kind = "raised"
          /\ outcome.exc.type = "TypeError"
          /\ in_flight = 0
          /\ ~ENABLED Next
    /\ pc = "done" =>
          /\ outcome.kind = "none"
          /\ \A s \in stages : StoredName(s) \in DOMAIN analysis_results

\* the step at which a stage's prompt builder raises outside the try block
C17_Step ==
    (/\ pc \in {"enter", "limiter_sleep"}
     /\ pc' # "limiter_sleep"
     /\ cur = "assessment"
     /\ \E k \in {"claims", "red_flags", "entities"} :
            /\ k \in DOMAIN analysis_results
            /\ \E f \in {"core_claims", "red_flags", "people", "organizations"} :
                   /\ f \in DOMAIN analysis_results[k]
                   /\ <<k, f>> \in {<<"claims", "core_claims">>,
                                     <<"red_flags", "red_flags">>,
                                     <<"entities", "people">>,
                                     <<"entities", "organizations">>}
                   /\ analysis_results[k][f].t \notin {"list", "str", "dict"})
    => /\ pc' = "failed"
       /\ outcome'.kind = "raised"
       /\ outcome'.exc.type = "TypeError"
       /\ analysis_results' = analysis_results
       /\ call_order' = call_order

\* C17: when an exception escapes the per-stage try blocks (the assessment
\* prompt's len() of a null collection), the run fails as a whole: the exception
\* reaches the caller, no result mapping is returned, partial or not, and no
\* model call is issued afterwards.
C17_EscapedExceptionAborts == [](C17_Aborted) /\ [][C17_Step]_vars

C17_Witness ==
    /\ pc = "failed"
    /\ stages = {"claims", "entities", "assessment"}
    /\ call_order = <<"pre_analysis", "claims", "entities">>
    /\ "overall_assessment" \notin DOMAIN analysis_results
    /\ outcome.exc.type = "TypeError"

RawFallbackFields == {"raw_response", "parsed", "operation", "error"}

\* every stored stage result is a failure shape, the raw-fallback shape, or a
\* decoded mapping without raw-fallback fields; a run that returns has called
\* the provider for every requested stage
C18_Shapes ==
    /\ \A s \in stages :
          StoredName(s) \in DOMAIN analysis_results =>
              LET v == analysis_results[StoredName(s)]
              IN  \/ DOMAIN v = {"error"} \cup FailureField(s)
                  \/ /\ DOMAIN v = RawFallbackFields
                     /\ v.parsed = FALSE
                     /\ v.error = "JSONDecodeError"
                  \/ DOMAIN v \cap (RawFallbackFields \cup {"questions", "claims", "entities"}) = {}
    /\ pc = "done" => stages \subseteq Called

\* the step that takes up a returned text: a text that does not decode is stored
\* as the raw-fallback shape, a text that decodes without any raw-fallback field,
\* and the next requested stage is entered
C18_Step ==
    (pc = "returned" /\ cur \in FixedStages) =>
        LET raw == outcome.text
            v == analysis_results'[StoredName(cur)]
            later == {s \in stages : Position(s) > Position(cur)}
        IN  /\ ~Decodes(raw) =>
                  v = [raw_response |-> raw, parsed |-> FALSE,
                       operation |-> Operation(cur), error |-> "JSONDecodeError"]
            /\ Decodes(raw) => DOMAIN v \cap RawFallbackFields = {}
            /\ later = {} => pc' = "done"
            /\ later # {} =>
                  /\ pc' = "enter"
                  /\ cur' \in later
                  /\ \A s \in later : Position(cur') <= Position(s)

C19_OneAtATime ==
    /\ in_flight \in {0, 1}
    /\ in_flight = 1 <=> pc = "awaiting"
    /\ pc = "awaiting" =>
          /\ call_order # <<>>
          /\ call_order[Len(call_order)] = cur
          /\ \A i \in 1..(Len(call_order) - 1) :
                StoredName(call_order[i]) \in DOMAIN analysis_results
          /\ StoredName(cur) \notin DOMAIN analysis_results

\* a request is issued only when none is in flight, and time passes only in the
\* limiter's sleep, the backoff sleep and the provider call
C19_Step ==
    /\ in_flight' > in_flight => (in_flight = 0 /\ pc = "calling" /\ pc' = "awaiting")
    /\ (since_call # None /\ since_call' > since_call) =>
          pc \in {"limiter_sleep", "backoff", "awaiting"}
    /\ (since_last # None /\ since_last' > since_last) =>
          pc \in {"limiter_sleep", "backoff", "awaiting"}

\* C19: within one analyze_article run at most one provider request is
\* outstanding at any time, a stage's model call is not issued before the
\* previous stage's result has been stored, and the run suspends (time passes)
\* only in the rate-limiter wait, the backoff sleep and the outbound model call.
C19_Sequential == [](C19_OneAtATime) /\ [][C19_Step]_vars

C19_Witness ==
    /\ pc = "awaiting"
    /\ in_flight = 1
    /\ call_order = <<"pre_analysis", "claims", "verification">>
    /\ attempt = 1
    /\ DOMAIN analysis_results =
           {"metadata", "analysis_timestamp", "pre_analysis", "claims"}

\* what a run's pre-analysis may store: a monologue, another one, a failure string
PreAnalysisOutputs ==
    {[monologue |-> <<Noise, Noise>>], [monologue |-> <<Noise>>],
     [failed |-> [prefix |-> "Pre-analysis failed: ",
                  text |-> "Gemini API error: Prompt was blocked. ",
                  attempts |-> 0, cause |-> "SAFETY"]]}

\* C21 as stated: the prompt of each requested stage incorporates the
\* pre-analysis string, so that a run on the same article and stage set whose
\* pre-analysis output differs (everything else stored so far being equal) sends
\* a different prompt for the stage.
C21_PromptsCarryPreAnalysis ==
    (pc = "calling" /\ cur \in FixedStages) =>
        \A other \in PreAnalysisOutputs :
            other # analysis_results["pre_analysis"] =>
                BuildPrompt(cur, Store(analysis_results, "pre_analysis", other)) # prompt

\* the stage stored under key was skipped, failed, or stored the raw fallback
NoResult(key) ==
    \/ key \notin DOMAIN analysis_results
    \/ "error" \in DOMAIN analysis_results[key]

\* the length of results[key][field], 0 when there is no such field
LengthOf(key, field) ==
    IF key \in DOMAIN analysis_results /\ field \in DOMAIN analysis_results[key]
    THEN analysis_results[key][field].n
    ELSE 0

Unknown == [t |-> "str", n |-> 1, s |-> "Unknown"]

\* C22: the digest of the assessment prompt is computed from the results
\* accumulated so far: its claim count is the length of claims.core_claims, its
\* red-flag count the length of red_flags.red_flags, its entity count the sum of
\* the lengths of entities.people and entities.organizations; a count is 0, and
\* tone, intensity, bias level and balance are 'Unknown', when the stage they
\* come from was skipped, failed, or stored the raw-fallback shape.
C22_DigestFromResults ==
    (cur = "assessment" /\ pc \in {"calling", "awaiting", "backoff", "returned", "raised"}) =>
        LET d == prompt.digest
        IN  /\ prompt.template = "assessment"
            /\ d.claims_count = LengthOf("claims", "core_claims")
            /\ d.red_flags_count = LengthOf("red_flags", "red_flags")
            /\ d.entities = LengthOf("entities", "people")
                              + LengthOf("entities", "organizations")
            /\ NoResult("claims") => d.claims_count = 0
            /\ NoResult("red_flags") =>
                  /\ d.red_flags_count = 0
                  /\ d.bias_risk_level = Unknown
                  /\ d.balance = Unknown
            /\ NoResult("entities") => d.entities = 0
            /\ NoResult("language_analysis") =>
                  /\ d.tone = Unknown
                  /\ d.intensity = Unknown
            /\ ("language_analysis" \in DOMAIN analysis_results
                /\ "overall_tone" \in DOMAIN analysis_results["language_analysis"]) =>
                  d.tone = analysis_results["language_analysis"]["overall_tone"]

C22_Witness ==
    /\ cur = "assessment"
    /\ pc = "awaiting"
    /\ stages = {"claims", "red_flags", "entities", "assessment"}
    /\ prompt.digest.claims_count = 2
    /\ prompt.digest.red_flags_count = 1
    /\ prompt.digest.entities = 3
    /\ prompt.digest.tone = Unknown
    /\ prompt.digest.bias_risk_level.s = "HIGH"

\* a step keeps the stage set and every entry stored so far, and adds at most
\* the entry of the step it belongs to (metadata and analysis_timestamp at the
\* start of the run)
C23_Step ==
    /\ stages' = stages
    /\ \A k \in DOMAIN analysis_results :
          /\ k \in DOMAIN analysis_results'
          /\ analysis_results'[k] = analysis_results[k]
    /\ DOMAIN analysis_results' \ DOMAIN analysis_results \subseteq
          (IF pc = "pending" THEN {"metadata", "analysis_timestamp"}
           ELSE {StoredName(cur)})

\* C23: each stage step writes only its own key of the result: an entry once
\* stored (metadata, analysis_timestamp, pre_analysis, a stage's result) is
\* never changed or removed by a later step, the assessment stage included; the
\* caller's stage set and metadata are not modified.
C23_WritesOwnKeyOnly ==
    /\ []("metadata" \in DOMAIN analysis_results =>
             analysis_results["metadata"] = "article metadata")
    /\ [][C23_Step]_vars

C23_Witness ==
    /\ pc = "done"
    /\ stages = {"claims", "language", "assessment"}
    /\ analysis_results["metadata"] = "article metadata"
    /\ "core_claims" \in DOMAIN analysis_results["claims"]
    /\ analysis_results["claims"]["core_claims"].n = 2
    /\ "overall_tone" \in DOMAIN analysis_results["language_analysis"]
    /\ analysis_results["language_analysis"]["overall_tone"].s = "emotional"
    /\ "credibility_level" \in DOMAIN analysis_results["overall_assessment"]

\* the calls that began less than min_interval = 4 seconds after the first
\* return of the limiter
InWindow(i) == completions[i].entered < completions[1].at + 4

\* calls i and j were suspended in their sleeps at the same time
SleptTogether(i, j) ==
    /\ completions[i].slept > 0
    /\ completions[j].slept > 0
    /\ completions[i].entered <= completions[j].at
    /\ completions[j].entered <= completions[i].at

\* C26: on a limiter whose last_request_time is unset, of the calls made within
\* min_interval of the first exactly one returns without sleeping: the first
\* caller alone finds the timestamp unset, every other call sleeps (or is still
\* asleep); two calls that skipped the sleep never return less than min_interval
\* apart; and among these calls two returns less than min_interval apart are
\* returns of calls that were asleep at the same time.
C26_OneSkipsTheWait ==
    /\ \A t \in Tasks : task[t].pc = "sleeping" => task[t].read # None
    /\ \A i \in 1..Len(completions) :
          /\ completions[i].read = None <=> i = 1
          /\ i = 1 => completions[i].slept = 0
          /\ (i > 1 /\ InWindow(i)) => completions[i].slept > 0
    /\ \A i, j \in 1..Len(completions) :
          (i < j /\ completions[i].slept = 0 /\ completions[j].slept = 0) =>
              completions[j].at - completions[i].at >= 4
    /\ \A i \in 1..(Len(completions) - 1) :
          (Close(i) /\ InWindow(i) /\ InWindow(i + 1)) => SleptTogether(i, i + 1)

\* both tasks called within the window: one skipped the sleep, the calls that
\* slept returned together
C26_Witness ==
    /\ Len(completions) >= 3
    /\ completions[1].slept = 0
    /\ completions[2].task # completions[1].task
    /\ InWindow(2)
    /\ InWindow(3)
    /\ completions[2].slept > 0
    /\ completions[3].slept > 0
    /\ completions[3].at - completions[2].at < 4

\* the run is over, by returning or by raising
Terminated == pc \in {"done", "failed"}

\* C25: if every provider call and every sleep returns, analyze_article
\* terminates, by returning or raising, for every stage set S, and it issues at
\* most (1 + |S|) * 3 provider calls with the default retry count of 3.
C25_TerminatesWithinBudget ==
    /\ [](total_calls <= (1 + Cardinality(stages)) * 3)
    /\ <>Terminated

C25_Witness ==
    /\ pc = "done"
    /\ stages = {"claims", "language", "red_flags", "verification", "entities",
                 "counter_arguments", "assessment"}
    /\ total_calls = 24

\* the steps of main, in the order of main.py:65-128
StepOrder == <<"extract", "analyze", "report", "save", "display">>

\* the steps whose failure makes main return
Fatal == {"extract", "analyze", "report"}

\* C24: in main the steps run in the order extract, analyze, generate report,
\* save, display; a failure of extraction, analysis or report generation ends
\* the run with that step as the last one begun (the analyzer is never called
\* after a failed extraction; nothing is generated, saved or displayed after a
\* failed analysis); a run that ends without such a failure has displayed the
\* report, whether or not saving failed.
C24_StepsInOrderFatalEnds ==
    /\ Len(steps) <= 5
    /\ \A i \in 1..Len(steps) : steps[i] = StepOrder[i]
    /\ failures \subseteq {steps[i] : i \in 1..Len(steps)}
    /\ \A f \in failures \cap Fatal : steps[Len(steps)] = f /\ main_pc = "ended"
    /\ "extract" \in failures => pc = "not_called"
    /\ (main_pc = "ended" /\ failures \cap Fatal = {}) => steps = StepOrder
    /\ main_pc \notin {"none", "start", "extracted"} /\ "extract" \notin failures
           => pc # "not_called"

\* analyze_article raised out of a stage's prompt building, and main ended
\* after two steps
C24_Witness ==
    /\ main_pc = "ended"
    /\ pc = "failed"
    /\ failures = {"analyze"}
    /\ steps = <<"extract", "analyze">>

====
